---- MODULE Spec2Model ----
(***************************************************************************)
(* deche: a cache of the results of a callable in a byte store.            *)
(* Model of src/deche/core.py: class Cache, the wrapper that __call__      *)
(* builds (ordinary and coroutine form) and the operations it attaches.    *)
(*                                                                         *)
(* One cached callable f(x, y) is shared by the callers of Procs.  A call  *)
(* is split where another thread or task can run in between: after the     *)
(* validity check of a hit (before the load) and while the target runs.    *)
(***************************************************************************)
EXTENDS Integers, Sequences, FiniteSets, TLC

\* ------------------------------------------------------------------ bounds
\* The clock runs from 0 to MaxTime; one tick stands for one second and for
\* one value of int(time.time() * 1e6).
MaxTime == 1
\* Calls of the cached callable begun in one behaviour.
MaxCalls == 2
\* Remove operations that delete an object, in one behaviour.
MaxRemoves == 1
\* Storage puts that fail, in one behaviour.
MaxStorageFailures == 1

Procs == {"t1", "t2"}
\* What the target may return; it may also raise.
Values == {"v1", "v2"}
\* The values the configured result validator does not accept.
Rejected == {"v2"}
\* The declared parameters of the target f(x, y).
Params == <<"x", "y">>
\* The calls made: positional arguments and keyword arguments (name, value).
Calls ==
  { [args |-> <<"a", "b">>, kwargs |-> {}],
    [args |-> <<"a">>, kwargs |-> {<<"y", "b">>}],
    [args |-> <<>>, kwargs |-> {<<"x", "c">>, <<"y", "b">>}] }

FirstCall == [args |-> <<"a", "b">>, kwargs |-> {}]

\* Callers are taken in this order: the second only while the first is busy.
Before(q, p) == q = "t1" /\ p = "t2"

VARIABLES
  cfg,       \* the Cache dataclass fields after __post_init__
  fs,        \* the storage: object name -> [data, mtime]
  parents,   \* Cache._parents
  now,       \* the clock
  custom,    \* what the custom cache validator answers at present
  pc,        \* where each caller is in the wrapper
  key,       \* the key of each caller's current (or last) call
  ret,       \* how each caller's last call ended
  out,       \* what the target did in each caller's last invocation
  calls,     \* calls begun
  invoked,   \* per key: target invocations (the tests' call_count)
  nok,       \* per key: calls that invoked the target and returned its result
  lastok,    \* per key: the result of the most recent such call
  overlap,   \* a call began while another call was in progress
  removes,   \* remove operations that deleted an object
  failures,  \* storage puts that failed
  path,      \* the path each caller's current (or last) call resolved
  origin,    \* the Cache in use: constructor arguments, fields, replace's overrides
  misuse     \* how the last lookup or removal without key and kwargs ended

vars ==
  << cfg, fs, parents, now, custom, pc, key, ret, out, calls, invoked,
     nok, lastok, overlap, removes, failures, path, origin, misuse >>

\* ------------------------------------------------------------------ codecs
\* A serializer writes its format into the bytes; a deserializer of another
\* format does not read them.
Encode(codec, obj) == [fmt |-> codec, obj |-> obj]

CanDecode(codec, bytes) == bytes.fmt = codec

Decode(codec, bytes) == bytes.obj

DEFAULT_SERIALIZER == "cloudpickle"

DEFAULT_DESERIALIZER == "cloudpickle"

\* hashlib.sha256(value).hexdigest(), collision free.
sha256(value) == <<"sha256", value>>

\* tokenize hashing something else than the serialized object.
tokenize_not_hashing_value(obj, serializer) ==
  [key |-> sha256(serializer), value |-> Encode(serializer, obj)]

tokenize(obj, serializer) ==
  LET value == Encode(serializer, obj)
  IN  [key |-> sha256(value), value |-> value]

\* deche.inspection.args_kwargs_to_kwargs: positional arguments bound to the
\* declared parameter names, with the keyword arguments.
args_kwargs_to_kwargs(call) ==
  { <<Params[i], call.args[i]>> : i \in 1..Len(call.args) } \cup call.kwargs

\* prepare_full_kwargs without its filter on the ignore-list.
prepare_full_kwargs_keeping_ignored(all_kwargs, ignore) == all_kwargs

\* A plain function has no self, so prepare_full_kwargs only drops the
\* ignored names; frozendict is the mapping without an order.
prepare_full_kwargs(all_kwargs, ignore) ==
  { kv \in all_kwargs : kv[1] \notin ignore }

Inputs(call) ==
  prepare_full_kwargs(args_kwargs_to_kwargs(call), cfg.non_hashable_kwargs)

KeyOf(call) == tokenize(Inputs(call), DEFAULT_SERIALIZER).key

AllKeys == { KeyOf(c) : c \in Calls }

\* ------------------------------------------------------------------ names
Extensions_inputs == ".inputs"

\* <dir>/<key><ext> and <dir>/<key>-<ts>; ts is <<>> or <<timestamp>>.
Name(dir, k, ts, ext) == [dir |-> dir, key |-> k, ts |-> ts, ext |-> ext]

\* A custom resolver that depends on the bound arguments: one directory per
\* value of x.  Called without them (kwargs=None) it gives a directory of its
\* own.
path_callable(kwargs) ==
  IF kwargs = <<>> THEN "by_x/None"
  ELSE "by_x/" \o (CHOOSE v \in {kv[2] : kv \in kwargs[1]} : <<"x", v>> \in kwargs[1])

\* Cache._path(func, kwargs): kwargs is <<>> for None, else <<mapping>>.
_path(kwargs) ==
  IF cfg.path_callable # "None" THEN path_callable(kwargs) ELSE "prefix/module.f"

EntryName(k) == Name(_path(<<>>), k, <<>>, "")

InputName(k) == Name(_path(<<>>), k, <<>>, Extensions_inputs)

is_input_filename(name) == name.ext = Extensions_inputs

not_cache_append_file(name) == name.ts = <<>>

\* data_filter letting the .inputs objects through.
data_filter_accepting_inputs(name) == name.ext # ".exc"

data_filter(name) == name.ext # Extensions_inputs /\ name.ext # ".exc"

\* ------------------------------------------------------------ configuration
\* A validator is named by its __name__; has_passed_cache_ttl is bound to a
\* cache_ttl by wrapped_partial.
DEFAULT_VALIDATORS == << <<"exists">> >>

wrapped_partial(cache_ttl) == <<"has_passed_cache_ttl", cache_ttl>>

REMOVE == "REMOVE"

APPEND == "APPEND"

\* Cache.__post_init__ on the constructor's arguments: the validators default
\* to DEFAULT_VALIDATORS, and a TTL check is appended when cache_ttl is not
\* None.  validators is <<>> for None and <<tuple>> for a given tuple.
post_init(coroutine, ttl, mode, validators, result_validator, in_codec, out_codec, ignore, resolver) ==
  LET given == IF validators = <<>> THEN DEFAULT_VALIDATORS ELSE validators[1]
      chain == IF ttl # <<>> THEN Append(given, wrapped_partial(ttl[1])) ELSE given
  IN  [ is_coroutine        |-> coroutine,
        cache_ttl           |-> ttl,
        cache_expiry_mode   |-> mode,
        cache_validators    |-> chain,
        result_validator    |-> result_validator,
        input_serializer    |-> in_codec,
        input_deserializer  |-> in_codec,
        output_serializer   |-> out_codec,
        output_deserializer |-> out_codec,
        non_hashable_kwargs |-> ignore,
        path_callable       |-> resolver ]

\* Cache.replace(**kwargs): the dataclass fields of the Cache as they are
\* now, with the overrides, given to the constructor.  o.cache_ttl is <<>>
\* when cache_ttl is not among the overrides, else <<the value given>>.
replace(c, o) ==
  post_init(c.is_coroutine,
            IF o.cache_ttl = <<>> THEN c.cache_ttl ELSE o.cache_ttl[1],
            c.cache_expiry_mode, <<c.cache_validators>>, c.result_validator,
            c.input_serializer, c.output_serializer, c.non_hashable_kwargs,
            c.path_callable)

\* Python's truth value of cache_ttl: None and 0 are false.
Truthy(ttl) == ttl # <<>> /\ ttl[1] # 0

\* ----------------------------------------------------------------- storage
exists(f, name) == name \in DOMAIN f

\* The objects whose modification time is read: has_passed_cache_ttl is given
\* <path>/<key>.  The time of the other objects is not followed (left at 0).
Timed(name) == name.ts = <<>> /\ name.ext = ""

\* fs.open(path, "wb") and f.write(data): creates or overwrites one object.
Put(f, name, data) ==
  [ n \in DOMAIN f \cup {name} |->
      IF n = name
      THEN [data |-> data, mtime |-> IF Timed(name) THEN now ELSE 0]
      ELSE f[n] ]

\* fs.rm(path)
Rm(f, name) == [ n \in DOMAIN f \ {name} |-> f[n] ]

\* deche.validators.has_passed_cache_ttl: the modification time of the entry
\* against now minus the TTL; it raises when there is no object to look at.
has_passed_cache_ttl(f, name, cache_ttl) ==
  IF ~exists(f, name) THEN "raise"
  ELSE IF now - f[name].mtime < cache_ttl THEN "True" ELSE "False"

\* One validator of the chain on (fs, path): "True", "False" or "raise".
Validate(v, f, name) ==
  CASE v[1] = "exists" -> IF exists(f, name) THEN "True" ELSE "False"
    [] v[1] = "has_passed_cache_ttl" -> has_passed_cache_ttl(f, name, v[2])
    [] OTHER -> custom

\* The loop of Cache.valid from validator i on: the validators evaluated and
\* the answer of the last one.
RECURSIVE ValidFrom(_, _, _, _)
ValidFrom(chain, i, f, name) ==
  IF i > Len(chain) THEN [evaluated |-> <<>>, last |-> "True"]
  ELSE LET r == Validate(chain[i], f, name)
       IN  IF r = "True"
           THEN LET rest == ValidFrom(chain, i + 1, f, name)
                IN  [evaluated |-> <<chain[i]>> \o rest.evaluated, last |-> rest.last]
           ELSE [evaluated |-> <<chain[i]>>, last |-> r]

\* valid without its "return True": the loop ends and None, which is false,
\* is returned.
valid_returning_none(f, name) ==
  LET run == ValidFrom(cfg.cache_validators, 1, f, name)
  IN  [result |-> "False", evaluated |-> run.evaluated]

\* valid without its try/except: a validator's exception leaves valid.
valid_uncaught(f, name) ==
  LET run == ValidFrom(cfg.cache_validators, 1, f, name)
  IN  [result |-> run.last, evaluated |-> run.evaluated]

\* Cache.valid: the assert and the validator's own exception are both caught;
\* result is "True" or "False" (never "raise").
valid(f, name) ==
  LET run == ValidFrom(cfg.cache_validators, 1, f, name)
  IN  [ result    |-> IF run.last = "True" THEN "True" ELSE "False",
        evaluated |-> run.evaluated ]

\* write without the test of the expiry mode: a timestamped copy whenever a
\* TTL is set.
write_any_mode(f, par, name, data, fail) ==
  LET par1 == par \cup {name.dir}
      snap == Truthy(cfg.cache_ttl) /\ ~is_input_filename(name)
      puts == IF snap
              THEN <<[name EXCEPT !.ts = <<now>>], name>>
              ELSE <<name>>
      done == IF fail = 0 THEN Len(puts)
              ELSE IF fail - 1 < Len(puts) THEN fail - 1 ELSE Len(puts)
      f1   == IF done >= 1 THEN Put(f, puts[1], data) ELSE f
      f2   == IF done >= 2 THEN Put(f1, puts[2], data) ELSE f1
  IN  [fs |-> f2, parents |-> par1, ok |-> done = Len(puts), puts |-> SubSeq(puts, 1, done)]

\* Cache.write with the storage failing at put number `fail` (0: no failure).
\* The parent is remembered first; an APPEND copy is put before the object.
write(f, par, name, data, fail) ==
  LET par1 == par \cup {name.dir}
      snap == Truthy(cfg.cache_ttl) /\ cfg.cache_expiry_mode = APPEND
                /\ ~is_input_filename(name)
      puts == IF snap
              THEN <<[name EXCEPT !.ts = <<now>>], name>>
              ELSE <<name>>
      done == IF fail = 0 THEN Len(puts)
              ELSE IF fail - 1 < Len(puts) THEN fail - 1 ELSE Len(puts)
      f1   == IF done >= 1 THEN Put(f, puts[1], data) ELSE f
      f2   == IF done >= 2 THEN Put(f1, puts[2], data) ELSE f1
  IN  [fs |-> f2, parents |-> par1, ok |-> done = Len(puts), puts |-> SubSeq(puts, 1, done)]

write_input(f, par, name, inputs, fail) ==
  write(f, par, [name EXCEPT !.ext = Extensions_inputs],
        tokenize(inputs, cfg.input_serializer).value, fail)

write_output(f, par, name, output, fail) ==
  write(f, par, name, tokenize(output, cfg.output_serializer).value, fail)

\* Cache.read_output: the bytes at the path, decoded with the deserializer
\* given or else with the output deserializer.
read_output(f, name, deserializer) ==
  LET d == IF deserializer = "None" THEN cfg.output_deserializer ELSE deserializer
  IN  IF ~exists(f, name) THEN [status |-> "FileNotFoundError", value |-> {}]
      ELSE IF ~CanDecode(d, f[name].data) THEN [status |-> "DecodeError", value |-> {}]
      ELSE [status |-> "ok", value |-> {Decode(d, f[name].data)}]

\* wrapper.tokenize(**kwargs): tokenize_func on keyword arguments only.
func_tokenize(kwargs) == KeyOf([args |-> <<>>, kwargs |-> kwargs])

\* The lookups and removals take key and kwargs, each <<>> for None or
\* <<value>>.  Their results name the storage calls made, in order.
\* _exists answering False when it is given neither key nor kwargs.
_exists_defaulting_to_false(f, k, kwargs, ext) ==
  IF ~(k # <<>> \/ kwargs # <<>>)
  THEN [status |-> "ok", value |-> FALSE, ops |-> <<>>]
  ELSE LET dir  == _path(<<>>)
           key_ == IF k = <<>> THEN func_tokenize(kwargs[1]) ELSE k[1]
       IN  [status |-> "ok", value |-> exists(f, Name(dir, key_, <<>>, ext)),
            ops |-> <<"exists">>]

\* Cache._exists(func, ext)(key=key, kwargs=kwargs)
_exists(f, k, kwargs, ext) ==
  IF ~(k # <<>> \/ kwargs # <<>>)
  THEN [status |-> "AssertionError", value |-> FALSE, ops |-> <<>>]
  ELSE LET dir  == _path(<<>>)
           key_ == IF k = <<>> THEN func_tokenize(kwargs[1]) ELSE k[1]
       IN  [status |-> "ok", value |-> exists(f, Name(dir, key_, <<>>, ext)),
            ops |-> <<"exists">>]

\* Cache._load(func, deserializer, ext)(key=key, kwargs=kwargs)
_load(f, k, kwargs, deserializer, ext) ==
  IF ~(k # <<>> \/ kwargs # <<>>)
  THEN [status |-> "AssertionError", value |-> {}, ops |-> <<>>]
  ELSE LET dir  == _path(<<>>)
           key_ == IF k = <<>> THEN func_tokenize(kwargs[1]) ELSE k[1]
           r    == read_output(f, Name(dir, key_, <<>>, ext), deserializer)
       IN  [status |-> r.status, value |-> r.value, ops |-> <<"open">>]

\* fs.glob(f"{path}/*{ext}"): the objects of the directory whose name ends
\* with ext.
glob(f, dir, ext) ==
  { n \in DOMAIN f : n.dir = dir /\ (ext = "" \/ (n.ext = ext /\ n.ts = <<>>)) }

identity(name) == TRUE

\* Cache._iter(func, ext, filter_)(key_only=False); filter_ is data_filter or
\* the default, identity.
_iter(f, ext, filter_) ==
  { n \in glob(f, _path(<<>>), ext) :
      /\ not_cache_append_file(n)
      /\ IF filter_ = "data_filter" THEN data_filter(n) ELSE identity(n) }

\* pathlib.Path(f).stem of a listed name: the last component without its
\* extension; the -<ts> of a timestamped copy is part of it.
stem(name) == [key |-> name.key, ts |-> name.ts]

\* wrapper.list_cached_data = self._list(func=wrapper, filter_=data_filter)
list_cached_data(f) == { stem(n) : n \in _iter(f, "", "data_filter") }

\* wrapper.list_cached_inputs = self._list(func=wrapper, ext=Extensions.inputs)
list_cached_inputs(f) == { stem(n) : n \in _iter(f, Extensions_inputs, "identity") }

\* ------------------------------------------------------------- the wrapper
\* The configured result validator on an output: what it returns, or "raise".
result_validator(output) ==
  CASE cfg.result_validator = "returns_false" ->
         IF output \in Rejected THEN "False" ELSE "True"
    [] cfg.result_validator = "raises" ->
         IF output \in Rejected THEN "raise" ELSE "None"
    [] OTHER -> "None"

NoValue == {}

\* The wrapper going on to the target although the InputRecord put failed.
wrapper_before_ignoring_failure(coroutine, f, par, call, fail) ==
  LET all_kwargs == args_kwargs_to_kwargs(call)
      dir    == _path(<<all_kwargs>>)
      inputs == prepare_full_kwargs(all_kwargs, cfg.non_hashable_kwargs)
      k      == tokenize(inputs, DEFAULT_SERIALIZER).key
      name   == Name(dir, k, <<>>, "")
      w      == write_input(f, par, name, inputs, fail)
  IN  IF valid(f, name).result = "True"
      THEN [key |-> k, path |-> dir, pc |-> "hit", outcome |-> "none", fs |-> f,
            parents |-> par, calls_target |-> FALSE]
      ELSE [key |-> k, path |-> dir, pc |-> "running", outcome |-> "none", fs |-> w.fs,
            parents |-> w.parents, calls_target |-> TRUE]

\* The wrapper up to the call of the target (core.py 258-267 and 283-292):
\* key, validity check, and on a miss the InputRecord.
wrapper_before(coroutine, f, par, call, fail) ==
  LET all_kwargs == args_kwargs_to_kwargs(call)
      dir    == _path(<<all_kwargs>>)
      inputs == prepare_full_kwargs(all_kwargs, cfg.non_hashable_kwargs)
      k      == tokenize(inputs, DEFAULT_SERIALIZER).key
      name   == Name(dir, k, <<>>, "")
      w      == write_input(f, par, name, inputs, fail)
  IN  IF valid(f, name).result = "True"
      THEN [key |-> k, path |-> dir, pc |-> "hit", outcome |-> "none", fs |-> f,
            parents |-> par, calls_target |-> FALSE]
      ELSE IF ~w.ok
      THEN [key |-> k, path |-> dir, pc |-> "idle", outcome |-> "StorageError",
            fs |-> w.fs, parents |-> w.parents, calls_target |-> FALSE]
      ELSE [key |-> k, path |-> dir, pc |-> "running", outcome |-> "none", fs |-> w.fs,
            parents |-> w.parents, calls_target |-> TRUE]

\* The hit branch: self._load(func=func)(key=key).
wrapper_hit(coroutine, f, k) ==
  LET r == _load(f, <<k>>, <<>>, "None", "")
  IN  [ outcome |-> IF r.status = "ok" THEN "hit" ELSE r.status, value |-> r.value ]

\* The wrapper storing the target's exception as if it were its result.
wrapper_after_caching_exception(coroutine, f, par, dir, k, target, fail) ==
  LET name == Name(dir, k, <<>>, "")
      w    == write_output(f, par, name, target, 0)
  IN  IF target = "raise"
      THEN [outcome |-> "TargetError", value |-> NoValue, fs |-> w.fs, parents |-> w.parents]
      ELSE [outcome |-> "computed", value |-> {target}, fs |-> w.fs, parents |-> w.parents]

\* The wrapper leaving an Entry that is already there as it is.
wrapper_after_keeping_entry(coroutine, f, par, dir, k, target, fail) ==
  LET name == Name(dir, k, <<>>, "")
      w    == write_output(f, par, name, target, 0)
  IN  IF target = "raise"
      THEN [outcome |-> "TargetError", value |-> NoValue, fs |-> f, parents |-> par]
      ELSE IF exists(f, name)
      THEN [outcome |-> "computed", value |-> {target}, fs |-> f, parents |-> par]
      ELSE [outcome |-> "computed", value |-> {target}, fs |-> w.fs, parents |-> w.parents]

\* The wrapper from the target's return on.  target is "raise" or the value
\* returned.  The ordinary form asserts that the result validator did not
\* return False (core.py 294-299); the coroutine form only calls it
\* (core.py 269-274).
wrapper_after(coroutine, f, par, dir, k, target, fail) ==
  LET name    == Name(dir, k, <<>>, "")
      verdict == result_validator(target)
      failed  == IF coroutine
                 THEN cfg.result_validator # "None" /\ verdict = "raise"
                 ELSE cfg.result_validator # "None" /\ verdict \in {"False", "raise"}
      w       == write_output(f, par, name, target, fail)
  IN  IF target = "raise"
      THEN [outcome |-> "TargetError", value |-> NoValue, fs |-> f, parents |-> par]
      ELSE IF failed
      THEN [outcome |-> "ValidationError", value |-> NoValue, fs |-> f, parents |-> par]
      ELSE IF ~w.ok
      THEN [outcome |-> "StorageError", value |-> NoValue, fs |-> w.fs, parents |-> w.parents]
      ELSE [outcome |-> "computed", value |-> {target}, fs |-> w.fs, parents |-> w.parents]

\* _remove deleting every object of the key, whatever its suffix.
_remove_every_suffix(f, k, kwargs, ext) ==
  IF ~(k # <<>> \/ kwargs # <<>>)
  THEN [status |-> "AssertionError", fs |-> f, ops |-> <<>>]
  ELSE LET key_ == IF k = <<>> THEN func_tokenize(kwargs[1]) ELSE k[1]
       IN  [status |-> "ok", fs |-> [n \in {m \in DOMAIN f : m.key # key_} |-> f[n]],
            ops |-> <<"exists", "rm">>]

\* Cache._remove(func, ext)(key=key, kwargs=kwargs): nothing when the object
\* is not there.
_remove(f, k, kwargs, ext) ==
  IF ~(k # <<>> \/ kwargs # <<>>)
  THEN [status |-> "AssertionError", fs |-> f, ops |-> <<>>]
  ELSE LET dir  == _path(<<>>)
           key_ == IF k = <<>> THEN func_tokenize(kwargs[1]) ELSE k[1]
           name == Name(dir, key_, <<>>, ext)
       IN  IF ~exists(f, name)
           THEN [status |-> "ok", fs |-> f, ops |-> <<"exists">>]
           ELSE [status |-> "ok", fs |-> Rm(f, name), ops |-> <<"exists", "rm">>]

\* wrapper.is_valid = self.is_valid(func=wrapper), called with *args, **kwargs
is_valid(f, call) == valid(f, Name(_path(<<>>), KeyOf(call), <<>>, "")).result = "True"

\* wrapper.has_inputs = self._exists(func=wrapper, ext=Extensions.inputs)
has_inputs(f, k, kwargs) == _exists(f, k, kwargs, Extensions_inputs)

\* wrapper.has_data = self._exists(func=wrapper)
has_data(f, k, kwargs) == _exists(f, k, kwargs, "")

\* wrapper.load_cached_inputs = self._load(func=wrapper, ext=Extensions.inputs)
load_cached_inputs(f, k, kwargs) == _load(f, k, kwargs, "None", Extensions_inputs)

\* wrapper.load_cached_data = self._load(func=wrapper)
load_cached_data(f, k, kwargs) == _load(f, k, kwargs, "None", "")

\* wrapper.remove_cached_inputs = self._remove(func=wrapper, ext=Extensions.inputs)
remove_cached_inputs(f, k, kwargs) == _remove(f, k, kwargs, Extensions_inputs)

\* wrapper.remove_cached_data = self._remove(func=wrapper)
remove_cached_data(f, k, kwargs) == _remove(f, k, kwargs, "")

\* The lookups and removals by name: how the call ends, the storage calls it
\* made and the storage it leaves.
LookupOps ==
  { "has_data", "has_inputs", "load_cached_data", "load_cached_inputs",
    "remove_cached_data", "remove_cached_inputs" }

Lookup(op, f, k, kwargs) ==
  CASE op = "has_data" ->
         LET r == has_data(f, k, kwargs)
         IN  [status |-> r.status, ops |-> r.ops, fs |-> f]
    [] op = "has_inputs" ->
         LET r == has_inputs(f, k, kwargs)
         IN  [status |-> r.status, ops |-> r.ops, fs |-> f]
    [] op = "load_cached_data" ->
         LET r == load_cached_data(f, k, kwargs)
         IN  [status |-> r.status, ops |-> r.ops, fs |-> f]
    [] op = "load_cached_inputs" ->
         LET r == load_cached_inputs(f, k, kwargs)
         IN  [status |-> r.status, ops |-> r.ops, fs |-> f]
    [] op = "remove_cached_data" -> remove_cached_data(f, k, kwargs)
    [] op = "remove_cached_inputs" -> remove_cached_inputs(f, k, kwargs)

\* ----------------------------------------------------------------- actions
Bump(fn, k) == [fn EXCEPT ![k] = @ + 1]

\* A caller calls the cached callable: the wrapper up to the target's start.
CallStart(p, call, fail) ==
  /\ pc[p] = "idle"
  /\ \A q \in Procs : Before(q, p) => pc[q] # "idle"
  /\ calls < MaxCalls
  /\ LET b == wrapper_before(cfg.is_coroutine, fs, parents, call, fail)
     IN  /\ pc' = [pc EXCEPT ![p] = b.pc]
         /\ key' = [key EXCEPT ![p] = b.key]
         /\ path' = [path EXCEPT ![p] = b.path]
         /\ ret' = [ret EXCEPT ![p] = [outcome |-> b.outcome, value |-> NoValue]]
         /\ fs' = b.fs
         /\ parents' = b.parents
         /\ invoked' = IF b.calls_target THEN Bump(invoked, b.key) ELSE invoked
         /\ out' = [out EXCEPT ![p] = "none"]
         /\ failures' = IF b.outcome = "StorageError" THEN failures + 1 ELSE failures
  /\ fail = 0 \/ failures < MaxStorageFailures
  /\ calls' = calls + 1
  /\ overlap' = (overlap \/ \E q \in Procs \ {p} : pc[q] # "idle")
  /\ UNCHANGED <<cfg, now, custom, nok, lastok, removes, origin, misuse>>

\* The hit branch loads the Entry and returns it.
Load(p) ==
  /\ pc[p] = "hit"
  /\ LET h == wrapper_hit(cfg.is_coroutine, fs, key[p])
     IN  ret' = [ret EXCEPT ![p] = h]
  /\ pc' = [pc EXCEPT ![p] = "idle"]
  /\ UNCHANGED <<cfg, fs, parents, now, custom, key, out, calls, invoked,
                 nok, lastok, overlap, removes, failures, path, origin, misuse>>

\* The target returns or raises; the wrapper validates, stores and returns.
TargetReturn(p, target, fail) ==
  /\ pc[p] = "running"
  /\ LET a == wrapper_after(cfg.is_coroutine, fs, parents, path[p], key[p], target, fail)
     IN  /\ ret' = [ret EXCEPT ![p] = [outcome |-> a.outcome, value |-> a.value]]
         /\ fs' = a.fs
         /\ parents' = a.parents
         /\ nok' = IF a.outcome = "computed" THEN Bump(nok, key[p]) ELSE nok
         /\ lastok' = IF a.outcome = "computed"
                      THEN [lastok EXCEPT ![key[p]] = a.value] ELSE lastok
         /\ failures' = IF a.outcome = "StorageError" THEN failures + 1 ELSE failures
  /\ fail = 0 \/ failures < MaxStorageFailures
  /\ out' = [out EXCEPT ![p] = target]
  /\ pc' = [pc EXCEPT ![p] = "idle"]
  /\ UNCHANGED <<cfg, now, custom, key, calls, invoked, overlap, removes,
                 path, origin, misuse>>

\* time.time() moves on.  Only the TTL check and the APPEND timestamp read the
\* clock, and only its distance to the stored times matters: it is followed
\* when a TTL is configured or a TTL check is in the chain, from the first
\* stored time on.
Tick ==
  /\ \/ cfg.cache_ttl # <<>>
     \/ \E i \in 1..Len(cfg.cache_validators) :
          cfg.cache_validators[i][1] = "has_passed_cache_ttl"
  /\ \E n \in DOMAIN fs : Timed(n) \/ n.ts # <<>>
  /\ now < MaxTime
  /\ now' = now + 1
  /\ UNCHANGED <<cfg, fs, parents, custom, pc, key, ret, out, calls, invoked,
                 nok, lastok, overlap, removes, failures, path, origin, misuse>>

\* What the custom validator looks at changes.
CustomChange(answer) ==
  /\ \E i \in 1..Len(cfg.cache_validators) : cfg.cache_validators[i] = <<"custom">>
  /\ answer # custom
  /\ custom' = answer
  /\ UNCHANGED <<cfg, fs, parents, now, pc, key, ret, out, calls, invoked,
                 nok, lastok, overlap, removes, failures, path, origin, misuse>>

\* wrapper.remove_cached_data(key=k, kwargs=kwargs)
RemoveCachedData(k, kwargs) ==
  /\ removes < MaxRemoves
  /\ fs' = remove_cached_data(fs, k, kwargs).fs
  /\ fs' # fs
  /\ removes' = removes + 1
  /\ UNCHANGED <<cfg, parents, now, custom, pc, key, ret, out, calls, invoked,
                 nok, lastok, overlap, failures, path, origin, misuse>>

\* wrapper.remove_cached_inputs(key=k, kwargs=kwargs)
RemoveCachedInputs(k, kwargs) ==
  /\ removes < MaxRemoves
  /\ fs' = remove_cached_inputs(fs, k, kwargs).fs
  /\ fs' # fs
  /\ removes' = removes + 1
  /\ UNCHANGED <<cfg, parents, now, custom, pc, key, ret, out, calls, invoked,
                 nok, lastok, overlap, failures, path, origin, misuse>>

\* A lookup or a removal is called with neither key nor kwargs.
LookupWithoutKey(op) ==
  /\ misuse.status = "none"
  /\ LET r == Lookup(op, fs, <<>>, <<>>)
     IN  /\ fs' = r.fs
         /\ misuse' = [status |-> r.status, ops |-> r.ops]
  /\ UNCHANGED <<cfg, parents, now, custom, pc, key, ret, out, calls, invoked,
                 nok, lastok, overlap, removes, failures, path, origin>>

\* cache.replace(**o) is called on the Cache constructed first, and the Cache
\* it returns decorates f from now on (before any call is made).
Replace(o) ==
  /\ origin.overrides = <<>>
  /\ calls = 0
  /\ cfg' = replace(origin.cache, o)
  /\ origin' = [origin EXCEPT !.overrides = <<o>>]
  /\ UNCHANGED <<fs, parents, now, custom, pc, key, ret, out, calls, invoked,
                 nok, lastok, overlap, removes, failures, path, misuse>>

\* ------------------------------------------------------------ specification
TTLs == {<<>>, <<0>>, <<1>>}

ValidatorTuples == {<<>>, << << <<"exists">>, <<"custom">> >> >>}

ResultValidators == {"None", "returns_false", "raises"}

Codecs == {"cloudpickle", "json"}

\* non_hashable_kwargs: nothing ignored, or the parameter x.
IgnoreLists == {{}, {"x"}}

\* The constructor's arguments: the defaults with one aspect set (the expiry,
\* the result validation of either form of wrapper, the validators, the
\* codecs or the ignore-list), and one configuration with an expiry and a
\* result validator.
CtorArgs ==
  { a \in [ coroutine : BOOLEAN, ttl : TTLs, mode : {REMOVE, APPEND},
            validators : ValidatorTuples, result_validator : ResultValidators,
            in_codec : Codecs, out_codec : Codecs, ignore : IgnoreLists,
            path_callable : {"None"} ] :
      LET expiry == a.ttl # <<>> \/ a.mode # REMOVE
          result == a.coroutine \/ a.result_validator # "None"
          chain  == a.validators # <<>>
          codecs == a.in_codec # DEFAULT_SERIALIZER \/ a.out_codec # DEFAULT_SERIALIZER
          keys   == a.ignore # {}
          set    == {x \in {"expiry", "result", "chain", "codecs", "keys"} :
                       \/ x = "expiry" /\ expiry
                       \/ x = "result" /\ result
                       \/ x = "chain" /\ chain
                       \/ x = "codecs" /\ codecs
                       \/ x = "keys" /\ keys}
      IN  \/ Cardinality(set) <= 1
          \/ a = [ coroutine |-> FALSE, ttl |-> <<1>>, mode |-> APPEND,
                   validators |-> <<>>, result_validator |-> "returns_false",
                   in_codec |-> DEFAULT_SERIALIZER, out_codec |-> DEFAULT_SERIALIZER,
                   ignore |-> {}, path_callable |-> "None" ] }

\* Cache(**a): the dataclass fields after __post_init__.
Cache(a) ==
  post_init(a.coroutine, a.ttl, a.mode, a.validators, a.result_validator,
            a.in_codec, a.out_codec, a.ignore, a.path_callable)

Configs == { Cache(a) : a \in CtorArgs }

InitState ==
  /\ fs = <<>>
  /\ parents = {}
  /\ now = 0
  /\ custom = "True"
  /\ pc = [p \in Procs |-> "idle"]
  /\ key = [p \in Procs |-> KeyOf(FirstCall)]
  /\ ret = [p \in Procs |-> [outcome |-> "none", value |-> NoValue]]
  /\ out = [p \in Procs |-> "none"]
  /\ calls = 0
  /\ invoked = [k \in AllKeys |-> 0]
  /\ nok = [k \in AllKeys |-> 0]
  /\ lastok = [k \in AllKeys |-> NoValue]
  /\ overlap = FALSE
  /\ removes = 0
  /\ failures = 0
  /\ path = [p \in Procs |-> _path(<<>>)]
  /\ misuse = [status |-> "none", ops |-> <<>>]

\* A Cache constructed from the arguments a decorates f.
Constructed(a) ==
  /\ cfg = Cache(a)
  /\ origin = [args |-> a, cache |-> Cache(a), overrides |-> <<>>]

Init == (\E a \in CtorArgs : Constructed(a)) /\ InitState

\* What a lookup or a removal is given as key and as kwargs: None (<<>>), a
\* key, the keyword arguments of a call.
KeyArgs == {<<>>} \cup { <<k>> : k \in AllKeys }

KwargsArgs == {<<>>} \cup { <<args_kwargs_to_kwargs(c)>> : c \in Calls }

\* A removal is given a key or kwargs.
RemoveArgs == { a \in KeyArgs \X KwargsArgs : (a[1] = <<>>) # (a[2] = <<>>) }

Next ==
  \/ \E p \in Procs, c \in Calls, fail \in 0..1 : CallStart(p, c, fail)
  \/ \E p \in Procs : Load(p)
  \/ \E p \in Procs, t \in Values \cup {"raise"}, fail \in 0..2 : TargetReturn(p, t, fail)
  \/ Tick
  \/ \E a \in {"True", "False", "raise"} : CustomChange(a)
  \/ \E a \in RemoveArgs : RemoveCachedData(a[1], a[2])
  \/ \E a \in RemoveArgs : RemoveCachedInputs(a[1], a[2])

Spec == Init /\ [][Next]_vars

\* The same callers with a Cache of any validators and any resolver, and with
\* lookups and removals that are given neither key nor kwargs.  The
\* constructor's arguments are the defaults with: nothing else; an expiry in
\* APPEND mode; an empty tuple of validators; the custom validator alone; a
\* resolver that depends on the arguments.
DefaultArgs ==
  [ coroutine |-> FALSE, ttl |-> <<>>, mode |-> REMOVE, validators |-> <<>>,
    result_validator |-> "None", in_codec |-> DEFAULT_SERIALIZER,
    out_codec |-> DEFAULT_SERIALIZER, ignore |-> {}, path_callable |-> "None" ]

CtorArgsAny ==
  { DefaultArgs,
    [DefaultArgs EXCEPT !.ttl = <<1>>, !.mode = APPEND],
    [DefaultArgs EXCEPT !.validators = << <<>> >>],
    [DefaultArgs EXCEPT !.validators = << << <<"custom">> >> >>],
    [DefaultArgs EXCEPT !.path_callable = "by_x"] }

InitAny == (\E a \in CtorArgsAny : Constructed(a)) /\ InitState

NextAny ==
  \/ Next
  \/ \E op \in LookupOps : LookupWithoutKey(op)

SpecAny == InitAny /\ [][NextAny]_vars

\* A Cache with or without a TTL, replace() on it with cache_ttl left as it
\* is or set to None, 0 or 1, and calls through the Cache it returns.
CtorArgsReplace == { DefaultArgs, [DefaultArgs EXCEPT !.ttl = <<1>>] }

Overrides == { [cache_ttl |-> t] : t \in {<<>>} \cup { <<x>> : x \in TTLs } }

InitReplace == (\E a \in CtorArgsReplace : Constructed(a)) /\ InitState

NextReplace ==
  \/ \E o \in Overrides : Replace(o)
  \/ \E p \in Procs, c \in Calls, fail \in 0..1 : CallStart(p, c, fail)
  \/ \E p \in Procs : Load(p)
  \/ \E p \in Procs, t \in Values \cup {"raise"}, fail \in 0..2 : TargetReturn(p, t, fail)
  \/ Tick

SpecReplace == InitReplace /\ [][NextReplace]_vars

\* ------------------------------------------------------------------ claims
\* The step is the beginning of a call by p: p is the idle caller taken next.
CallBegins(p) ==
  /\ calls' = calls + 1
  /\ pc[p] = "idle"
  /\ \A q \in Procs : Before(q, p) => pc[q] # "idle"

TargetEnds(p) == pc[p] = "running" /\ pc'[p] = "idle"

\* The InputRecord of key k holds the canonical arguments of the calls of k.
HoldsInputs(f, k) ==
  /\ exists(f, InputName(k))
  /\ \E c \in Calls :
       KeyOf(c) = k /\ f[InputName(k)].data = Encode(cfg.input_serializer, Inputs(c))

\* C1: a call whose target raises ends with the target's exception and
\* leaves the storage as it was: as long as no call has returned a result
\* list_cached_data() is empty, the InputRecord written before the call is
\* still there, and no call takes the hit branch (the next call invokes the
\* target again).
C1_NoEntryYet ==
  /\ (\A k \in AllKeys : nok[k] = 0) => list_cached_data(fs) = {}
  /\ \A p \in Procs :
       /\ pc[p] = "hit" => nok[key[p]] >= 1
       /\ (pc[p] = "idle" /\ ret[p].outcome = "TargetError" /\ removes = 0)
            => HoldsInputs(fs, key[p])

C1_RaiseStep ==
  \A p \in Procs :
    (TargetEnds(p) /\ out'[p] = "raise")
      => /\ ret'[p] = [outcome |-> "TargetError", value |-> NoValue]
         /\ fs' = fs
         /\ nok' = nok

C1_ExceptionNotCached == []C1_NoEntryYet /\ [][C1_RaiseStep]_vars

\* Two calls in a row with the same arguments both raised, and the target
\* was invoked twice.
C1_Witness ==
  \E k \in AllKeys :
    /\ invoked[k] = 2 /\ nok[k] = 0 /\ ~overlap /\ removes = 0 /\ failures = 0
    /\ pc["t1"] = "idle" /\ ret["t1"].outcome = "TargetError" /\ key["t1"] = k
    /\ list_cached_data(fs) = {}

DefaultChain == cfg.cache_validators = DEFAULT_VALIDATORS

Stored(f, k) == Decode(cfg.output_deserializer, f[EntryName(k)].data)

\* The call begun by p went on to the target, or its InputRecord put failed.
Missed(p) ==
  \/ /\ pc'[p] = "running"
     /\ invoked' = Bump(invoked, key'[p])
     /\ HoldsInputs(fs', key'[p])
  \/ /\ pc'[p] = "idle"
     /\ ret'[p].outcome = "StorageError"
     /\ failures' = failures + 1
     /\ invoked' = invoked

\* C2: with the default validators (no TTL), no removal and calls made one
\* after the other, once a call of key k has returned the target's result
\* the target is not invoked for k again and a later call of k takes the hit
\* branch and returns the stored value, the first result; a call whose key
\* has no Entry invokes the target.
C2_AtMostOnce ==
  (DefaultChain /\ removes = 0 /\ ~overlap) => \A k \in AllKeys : nok[k] <= 1

C2_Step ==
  (DefaultChain /\ removes' = 0 /\ ~overlap') =>
    \A k \in AllKeys, p \in Procs :
      /\ nok[k] >= 1 =>
           /\ invoked'[k] = invoked[k]
           /\ (CallBegins(p) /\ key'[p] = k) => (pc'[p] = "hit" /\ fs' = fs)
           /\ (pc[p] = "hit" /\ key[p] = k /\ pc'[p] = "idle")
                => ret'[p] = [outcome |-> "hit", value |-> lastok[k]]
      /\ (CallBegins(p) /\ key'[p] = k /\ ~exists(fs, EntryName(k))) => Missed(p)

C2_SecondCallIsHit == []C2_AtMostOnce /\ [][C2_Step]_vars

\* A second call returned the value stored by the first; one invocation.
C2_Witness ==
  \E p \in Procs :
    /\ DefaultChain /\ removes = 0 /\ ~overlap /\ calls = 2
    /\ pc[p] = "idle" /\ ret[p].outcome = "hit"
    /\ ret[p].value = lastok[key[p]] /\ invoked[key[p]] = 1

\* C3 (as claimed): with a result validator configured, a call whose target
\* returned a value the validator answers False to, or raises on, ends with
\* ValidationError, and every Entry holds a value the validator accepts.
C3_Orig ==
  cfg.result_validator # "None" =>
    /\ \A p \in Procs :
         (pc[p] = "idle" /\ out[p] \in Values
            /\ result_validator(out[p]) \in {"False", "raise"})
           => ret[p].outcome = "ValidationError"
    /\ \A k \in AllKeys :
         exists(fs, EntryName(k))
           => result_validator(Stored(fs, k)) \notin {"False", "raise"}

\* C4 (as claimed): wherever a call stands, the ordinary and the coroutine
\* form of the wrapper give the same outcome and the same storage, for every
\* call, every result of the target and every storage failure.
C4_Orig ==
  /\ \A c \in Calls, fl \in 0..1 :
       wrapper_before(TRUE, fs, parents, c, fl) = wrapper_before(FALSE, fs, parents, c, fl)
  /\ \A p \in Procs :
       /\ pc[p] = "hit" => wrapper_hit(TRUE, fs, key[p]) = wrapper_hit(FALSE, fs, key[p])
       /\ pc[p] = "running" =>
            \A t \in Values \cup {"raise"}, fl \in 0..2 :
              wrapper_after(TRUE, fs, parents, path[p], key[p], t, fl)
                = wrapper_after(FALSE, fs, parents, path[p], key[p], t, fl)

\* C5: the target starts for key k only in the step that has put the
\* InputRecord of k, and a call whose InputRecord put fails ends with the
\* storage error without invoking the target.
C5_Step ==
  /\ \A k \in AllKeys :
       invoked'[k] # invoked[k] =>
         /\ invoked'[k] = invoked[k] + 1
         /\ HoldsInputs(fs', k)
         /\ \E p \in Procs : CallBegins(p) /\ key'[p] = k /\ pc'[p] = "running"
  /\ \A p \in Procs :
       /\ (pc[p] # "running" /\ pc'[p] = "running") => Missed(p)
       /\ (CallBegins(p) /\ failures' # failures)
            => (pc'[p] = "idle" /\ invoked' = invoked /\ ret'[p].outcome = "StorageError")

C5_InputBeforeTarget == [][C5_Step]_vars

\* After a call whose InputRecord put failed (target not invoked), the next
\* call put the InputRecord and its target runs.
C5_Witness ==
  \E p \in Procs :
    /\ pc[p] = "running" /\ failures = 1 /\ calls = 2 /\ invoked[key[p]] = 1
    /\ HoldsInputs(fs, key[p]) /\ removes = 0

\* C6: valid(path) answers True or False and never raises; it is False
\* exactly when some validator answers False or raises, the validators
\* evaluated are those up to the first such one, and the call then goes on
\* as a miss: it puts the InputRecord and invokes the target.
FailingAt(f, name) ==
  { i \in 1..Len(cfg.cache_validators) :
      Validate(cfg.cache_validators[i], f, name) # "True" }

Least(S) == CHOOSE x \in S : \A y \in S : x <= y

C6_Valid ==
  \A k \in AllKeys :
    LET r   == valid(fs, EntryName(k))
        bad == FailingAt(fs, EntryName(k))
    IN  /\ r.result \in {"True", "False"}
        /\ r.result = "True" <=> bad = {}
        /\ r.evaluated = IF bad = {} THEN cfg.cache_validators
                         ELSE SubSeq(cfg.cache_validators, 1, Least(bad))

C6_Step ==
  \A p \in Procs :
    CallBegins(p) =>
      IF FailingAt(fs, EntryName(key'[p])) # {} THEN Missed(p) ELSE pc'[p] = "hit"

C6_ValidatorNeverFatal == []C6_Valid /\ [][C6_Step]_vars

\* The Entry is there and the custom validator raises: the validator after
\* it is not evaluated, and the call went on to the target.
C6_Witness ==
  \E p \in Procs :
    /\ pc[p] = "running" /\ custom = "raise" /\ nok[key[p]] = 1
    /\ exists(fs, EntryName(key[p]))
    /\ valid(fs, EntryName(key[p])).evaluated = << <<"exists">>, <<"custom">> >>
    /\ valid(fs, EntryName(key[p])).result = "False"

\* C7: in REMOVE mode with a TTL, a call made once the Entry's TTL has
\* elapsed invokes the target, its result overwrites the Entry at
\* <path>/<key> and nothing else, and a key never has another output object
\* than its one Entry: no Snapshot is ever there.
ExpiryRemove == cfg.cache_expiry_mode = REMOVE /\ cfg.cache_ttl # <<>>

Outputs(f, k) == { n \in DOMAIN f : n.key = k /\ n.ext # Extensions_inputs }

Snapshots(f, k) == { n \in DOMAIN f : n.key = k /\ n.ts # <<>> }

C7_OneEntry == ExpiryRemove => \A k \in AllKeys : Outputs(fs, k) \subseteq {EntryName(k)}

C7_Step ==
  ExpiryRemove =>
    \A p \in Procs :
      /\ ( /\ CallBegins(p)
           /\ exists(fs, EntryName(key'[p]))
           /\ now - fs[EntryName(key'[p])].mtime >= cfg.cache_ttl[1] ) => Missed(p)
      /\ (TargetEnds(p) /\ ret'[p].outcome = "computed")
           => fs' = Put(fs, EntryName(key[p]), Encode(cfg.output_serializer, out'[p]))

C7_RemoveModeOverwrites == []C7_OneEntry /\ [][C7_Step]_vars

\* The Entry was computed, expired and computed again: one Entry, written at
\* the later time.
C7_Witness ==
  \E k \in AllKeys :
    /\ ExpiryRemove /\ nok[k] = 2 /\ ~overlap /\ removes = 0
    /\ Outputs(fs, k) = {EntryName(k)}
    /\ cfg.cache_ttl = <<1>> /\ fs[EntryName(k)].mtime = 1

\* C8 (as claimed): in APPEND mode with a TTL configured and the default
\* validators, with calls made one after the other and nothing removed or
\* failed, a key with N successful invocations has N Snapshots and one
\* Entry, which holds the most recent result.
C8_Orig ==
  ( /\ cfg.cache_expiry_mode = APPEND /\ cfg.cache_ttl # <<>>
    /\ cfg.cache_validators = << <<"exists">>, wrapped_partial(cfg.cache_ttl[1]) >>
    /\ ~overlap /\ removes = 0 /\ failures = 0 ) =>
    \A k \in AllKeys :
      /\ Cardinality(Snapshots(fs, k)) = nok[k]
      /\ nok[k] >= 1 =>
           /\ exists(fs, EntryName(k))
           /\ {Stored(fs, k)} = lastok[k]

\* C9: a successful call leaves at <path>/<key> the whole of its own
\* target's result, which it also returns, so the Entry always holds the
\* result of the call that wrote last; two callers that both missed on one
\* key have both invoked the target.
C9_LastWrite ==
  /\ \A k \in AllKeys :
       exists(fs, EntryName(k)) =>
         /\ fs[EntryName(k)].data = Encode(cfg.output_serializer, Stored(fs, k))
         /\ lastok[k] = {Stored(fs, k)}
  /\ \A p, q \in Procs :
       (p # q /\ pc[p] = "running" /\ pc[q] = "running" /\ key[p] = key[q])
         => invoked[key[p]] >= 2

C9_Step ==
  \A p \in Procs :
    (TargetEnds(p) /\ ret'[p].outcome = "computed") =>
      /\ ret'[p].value = {out'[p]}
      /\ exists(fs', EntryName(key[p]))
      /\ fs'[EntryName(key[p])].data = Encode(cfg.output_serializer, out'[p])
      /\ \A k \in AllKeys \ {key[p]} :
           exists(fs', EntryName(k)) = exists(fs, EntryName(k))

C9_LastWriteWins == []C9_LastWrite /\ [][C9_Step]_vars

\* Two callers missed on the same key at the same time, got different
\* results, and the Entry holds the result of one of them.
C9_Witness ==
  \E k \in AllKeys :
    /\ overlap /\ calls = 2 /\ invoked[k] = 2 /\ nok[k] = 2 /\ removes = 0
    /\ \A p \in Procs : pc[p] = "idle" /\ key[p] = k /\ ret[p].outcome = "computed"
    /\ ret["t1"].value # ret["t2"].value
    /\ {Stored(fs, k)} \in {ret["t1"].value, ret["t2"].value}

\* C10 (as claimed): whatever the codecs, load_cached_inputs of a key whose
\* InputRecord is stored returns the canonical arguments of the call.
C10_Orig ==
  \A c \in Calls :
    exists(fs, InputName(KeyOf(c)))
      => LET r == load_cached_inputs(fs, <<KeyOf(c)>>, <<>>)
         IN  r.status = "ok" /\ r.value = {Inputs(c)}

\* The value a call binds to the parameter n.
Bound(call, n) ==
  CHOOSE v \in { kv[2] : kv \in args_kwargs_to_kwargs(call) } :
    <<n, v>> \in args_kwargs_to_kwargs(call)

\* The pairs of calls that differ in the value of an ignored argument and in
\* nothing else.
IgnoredPairs ==
  { cc \in Calls \X Calls :
      /\ \A i \in 1..Len(Params) :
           Params[i] \notin cfg.non_hashable_kwargs
             => Bound(cc[1], Params[i]) = Bound(cc[2], Params[i])
      /\ \E i \in 1..Len(Params) :
           /\ Params[i] \in cfg.non_hashable_kwargs
           /\ Bound(cc[1], Params[i]) # Bound(cc[2], Params[i]) }

\* C11: two calls that differ only in the values of arguments named in
\* non_hashable_kwargs have the same key, and (default validators, nothing
\* removed, calls one after the other) once one of them has returned the
\* target's result the other takes the hit branch, leaves the storage and the
\* invocation counter as they are and returns that same stored result.
C11_SameKey ==
  \A cc \in IgnoredPairs :
    LET b == wrapper_before(cfg.is_coroutine, fs, parents, cc[2], 0)
    IN  /\ KeyOf(cc[1]) = KeyOf(cc[2])
        /\ b.key = KeyOf(cc[1])
        /\ (DefaultChain /\ removes = 0 /\ ~overlap /\ nok[KeyOf(cc[1])] >= 1) =>
             /\ b.pc = "hit" /\ ~b.calls_target /\ b.fs = fs
             /\ wrapper_hit(cfg.is_coroutine, fs, b.key)
                  = [outcome |-> "hit", value |-> lastok[KeyOf(cc[1])]]

C11_Step ==
  (cfg.non_hashable_kwargs # {} /\ DefaultChain /\ removes' = 0 /\ ~overlap') =>
    \A p \in Procs :
      /\ (CallBegins(p) /\ nok[key'[p]] >= 1)
           => (pc'[p] = "hit" /\ invoked' = invoked /\ fs' = fs)
      /\ (pc[p] = "hit" /\ pc'[p] = "idle")
           => ret'[p] = [outcome |-> "hit", value |-> lastok[key[p]]]

C11_IgnoredArgumentsDoNotCount == []C11_SameKey /\ [][C11_Step]_vars

\* x is ignored and the calls differ in x: of two calls one after the other
\* the first invoked the target and the second returned the stored result.
C11_Witness ==
  \E p \in Procs :
    /\ cfg.non_hashable_kwargs = {"x"} /\ IgnoredPairs # {}
    /\ calls = 2 /\ ~overlap /\ removes = 0
    /\ pc[p] = "idle" /\ ret[p].outcome = "hit"
    /\ ret[p].value = lastok[key[p]] /\ invoked[key[p]] = 1

\* C12: the key of a call is the same in every state and depends only on
\* the mapping from parameter names to values that its positional and keyword
\* arguments bind to: two calls that bind to the same mapping (f(a, b) and
\* f(a, y=b)) have the same key and the wrapper does exactly the same for
\* both, so (default validators, nothing removed, calls one after the other)
\* after a success of one the other is a hit; two calls whose canonical
\* arguments differ have different keys.
C12_Keys ==
  \A c1 \in Calls :
    LET b1 == wrapper_before(cfg.is_coroutine, fs, parents, c1, 0)
    IN  /\ b1.key = KeyOf(c1)
        /\ b1.key = func_tokenize(args_kwargs_to_kwargs(c1))
        /\ \A c2 \in Calls \ {c1} :
             IF args_kwargs_to_kwargs(c1) = args_kwargs_to_kwargs(c2)
             THEN /\ KeyOf(c1) = KeyOf(c2)
                  /\ b1 = wrapper_before(cfg.is_coroutine, fs, parents, c2, 0)
                  /\ (DefaultChain /\ removes = 0 /\ ~overlap /\ nok[KeyOf(c2)] >= 1) =>
                       /\ b1.pc = "hit" /\ ~b1.calls_target
                       /\ wrapper_hit(cfg.is_coroutine, fs, b1.key).outcome = "hit"
             ELSE (\E i \in 1..Len(Params) :
                     /\ Params[i] \notin cfg.non_hashable_kwargs
                     /\ Bound(c1, Params[i]) # Bound(c2, Params[i]))
                    => KeyOf(c1) # KeyOf(c2)

\* f(a, b) and f(a, y=b): one of them invoked the target, the next call was
\* a hit, and a call with another y is a miss.
C12_Witness ==
  \E p \in Procs, c1, c2, c3 \in Calls :
    /\ c1 # c2 /\ args_kwargs_to_kwargs(c1) = args_kwargs_to_kwargs(c2)
    /\ cfg.non_hashable_kwargs = {} /\ DefaultChain
    /\ calls = 2 /\ ~overlap /\ removes = 0
    /\ pc[p] = "idle" /\ ret[p].outcome = "hit" /\ key[p] = KeyOf(c1)
    /\ invoked[KeyOf(c2)] = 1
    /\ KeyOf(c3) # KeyOf(c1)
    /\ wrapper_before(cfg.is_coroutine, fs, parents, c3, 0).pc = "running"

\* The key a lookup or removal is about, given key and kwargs.
KeyGiven(k, kwargs) == IF k = <<>> THEN func_tokenize(kwargs[1]) ELSE k[1]

\* The storage g is f without the object name, and nothing else differs.
Without(g, f, name) ==
  /\ DOMAIN g = DOMAIN f \ {name}
  /\ \A n \in DOMAIN g : g[n] = f[n]

\* C13: remove_cached_data, given a key or kwargs, raises nothing and leaves
\* the storage as it is except for the Entry <path>/<key> of that key, which
\* is gone if it was there (InputRecord, Snapshots and the objects of other
\* keys stay); remove_cached_inputs does the same with <path>/<key>.inputs;
\* every removal in a behaviour is one of these; and the call that follows
\* remove_cached_data for its key is a miss that invokes the target.
C13_Frame ==
  \A a \in RemoveArgs :
    LET d == remove_cached_data(fs, a[1], a[2])
        i == remove_cached_inputs(fs, a[1], a[2])
    IN  /\ d.status = "ok" /\ Without(d.fs, fs, EntryName(KeyGiven(a[1], a[2])))
        /\ i.status = "ok" /\ Without(i.fs, fs, InputName(KeyGiven(a[1], a[2])))

C13_Step ==
  /\ removes' # removes =>
       /\ \E k \in AllKeys :
            \/ exists(fs, EntryName(k)) /\ Without(fs', fs, EntryName(k))
            \/ exists(fs, InputName(k)) /\ Without(fs', fs, InputName(k))
       /\ UNCHANGED <<pc, ret, invoked, nok>>
  /\ \A p \in Procs :
       (CallBegins(p) /\ ~exists(fs, EntryName(key'[p]))) => Missed(p)

C13_RemoveOneObject == []C13_Frame /\ [][C13_Step]_vars

\* APPEND mode: the Entry of a key was removed, its InputRecord and its
\* Snapshot are still there, and the next call of the key invoked the target
\* again.
C13_Witness ==
  \E p \in Procs :
    /\ removes = 1 /\ calls = 2 /\ ~overlap /\ failures = 0
    /\ pc[p] = "running" /\ invoked[key[p]] = 2 /\ nok[key[p]] = 1
    /\ ~exists(fs, EntryName(key[p]))
    /\ exists(fs, InputName(key[p]))
    /\ Snapshots(fs, key[p]) # {}

\* The string a key is listed as.
Listed(k) == stem(EntryName(k))

\* The two listings against the objects of the store.
C14_Lists ==
  /\ list_cached_data(fs) = { Listed(k) : k \in {j \in AllKeys : exists(fs, EntryName(j))} }
  /\ list_cached_inputs(fs) = { Listed(k) : k \in {j \in AllKeys : exists(fs, InputName(j))} }
  /\ \A n1, n2 \in _iter(fs, "", "data_filter") : stem(n1) = stem(n2) => n1 = n2
  /\ \A n1, n2 \in _iter(fs, Extensions_inputs, "identity") : stem(n1) = stem(n2) => n1 = n2
  /\ \A n \in _iter(fs, "", "data_filter") : n.ts = <<>> /\ n.ext = ""

\* C14: list_cached_data() is exactly the keys that have an Entry
\* <path>/<key>, each listed for one object only, so never a key that has
\* only an InputRecord and never the name of a timestamped copy;
\* list_cached_inputs() is exactly the keys that have an InputRecord, whether
\* or not they have an Entry.
C14_ListsAreExact == []C14_Lists

\* APPEND mode: one key has Entry, Snapshot and InputRecord, another only
\* its InputRecord; the data listing has the first key only, the input
\* listing both.
C14_Witness ==
  \E k1, k2 \in AllKeys :
    /\ k1 # k2
    /\ exists(fs, EntryName(k1)) /\ Snapshots(fs, k1) # {} /\ exists(fs, InputName(k1))
    /\ ~exists(fs, EntryName(k2)) /\ exists(fs, InputName(k2))
    /\ list_cached_data(fs) = {Listed(k1)}
    /\ list_cached_inputs(fs) = {Listed(k1), Listed(k2)}

\* C15: has_data, has_inputs, load_cached_data, load_cached_inputs,
\* remove_cached_data and remove_cached_inputs, called with neither key nor
\* kwargs, end with the assertion's error without having made any storage
\* call, and the storage is as it was.
C15_Usage ==
  \A op \in LookupOps :
    LET r == Lookup(op, fs, <<>>, <<>>)
    IN  r.status = "AssertionError" /\ r.ops = <<>> /\ r.fs = fs

C15_Step ==
  misuse' # misuse =>
    /\ misuse' = [status |-> "AssertionError", ops |-> <<>>]
    /\ fs' = fs
    /\ UNCHANGED <<pc, ret, invoked, nok, removes>>

C15_KeyOrKwargsRequired == []C15_Usage /\ [][C15_Step]_vars

\* Such a call has failed while an Entry, an InputRecord and a Snapshot were
\* stored; they are still there.
C15_Witness ==
  \E k \in AllKeys :
    /\ misuse.status = "AssertionError" /\ removes = 0
    /\ nok[k] = 1 /\ exists(fs, EntryName(k)) /\ exists(fs, InputName(k))
    /\ Snapshots(fs, k) # {}

\* The constructor's arguments with the overrides of replace applied.
Overridden(a, o) ==
  [a EXCEPT !.ttl = IF o.cache_ttl = <<>> THEN @ ELSE o.cache_ttl[1]]

\* The validators a Cache was configured with (the default ones for None).
Configured(a) == IF a.validators = <<>> THEN DEFAULT_VALIDATORS ELSE a.validators[1]

\* C16 (as claimed): replace leaves the Cache it is called on as it was
\* constructed, and the Cache it returns is the one the constructor gives
\* for the original's arguments with the overrides applied: its chain is the
\* configured validators, followed by one TTL check for the new TTL when a
\* TTL is configured and by nothing when none is.
C16_Orig ==
  /\ origin.cache = Cache(origin.args)
  /\ origin.overrides # <<>> =>
       LET a == Overridden(origin.args, origin.overrides[1])
       IN  /\ cfg = Cache(a)
           /\ cfg.cache_validators =
                IF a.ttl # <<>>
                THEN Append(Configured(a), wrapped_partial(a.ttl[1]))
                ELSE Configured(a)

\* C17 (as claimed): the write of an Entry puts a copy at <path>/<key>-<ts>
\* exactly when the mode is APPEND and a TTL is configured, zero included,
\* and puts it before the object itself (a failure of the second put leaves
\* the copy alone); in the other configurations, and for an InputRecord, it
\* puts the one object only.
C17_Step ==
  \A p \in Procs :
    LET name == Name(path[p], key[p], <<>>, "")
        snap == [name EXCEPT !.ts = <<now>>]
        data == Encode(cfg.output_serializer, out'[p])
        both == cfg.cache_expiry_mode = APPEND /\ cfg.cache_ttl # <<>>
    IN  /\ (TargetEnds(p) /\ ret'[p].outcome = "computed") =>
             /\ write(fs, parents, name, data, 0).puts
                  = IF both THEN <<snap, name>> ELSE <<name>>
             /\ fs' = IF both THEN Put(Put(fs, snap, data), name, data)
                      ELSE Put(fs, name, data)
        /\ (TargetEnds(p) /\ ret'[p].outcome = "StorageError") =>
             fs' \in IF both THEN {fs, Put(fs, snap, data)} ELSE {fs}
        /\ (CallBegins(p) /\ pc'[p] = "running") =>
             /\ DOMAIN fs' = DOMAIN fs \cup {InputName(key'[p])}
             /\ \A n \in DOMAIN fs : fs'[n] = fs[n]

C17_Orig == [][C17_Step]_vars

\* C18 (as claimed): whatever validators the constructor was given, the
\* chain holds the existence check, valid(path) is not true of a path with
\* no object, and a call takes the hit branch only for a key whose Entry is
\* stored.
C18_Chain ==
  /\ \E i \in 1..Len(cfg.cache_validators) : cfg.cache_validators[i] = <<"exists">>
  /\ \A k \in AllKeys, c \in Calls :
       LET name == Name(_path(<<args_kwargs_to_kwargs(c)>>), k, <<>>, "")
       IN  valid(fs, name).result = "True" => exists(fs, name)

C18_Step ==
  \A p \in Procs :
    (CallBegins(p) /\ pc'[p] = "hit") => exists(fs, Name(path'[p], key'[p], <<>>, ""))

C18_Orig == []C18_Chain /\ [][C18_Step]_vars

\* C19 (as claimed): with the default path or a resolver that depends on the
\* arguments, the <path>/<key> that a call validates and writes is the one
\* that the hit branch loads and that is_valid, has_data, load_cached_data
\* and remove_cached_data use for the same arguments; so (default validators,
\* nothing removed, calls one after the other) after a call has returned the
\* target's result is_valid and has_data hold for its arguments,
\* load_cached_data gives the result, and a hit loads it.
C19_Addresses ==
  \A c \in Calls :
    LET kwargs == <<args_kwargs_to_kwargs(c)>>
        b      == wrapper_before(cfg.is_coroutine, fs, parents, c, 0)
        addr   == Name(b.path, b.key, <<>>, "")
    IN  /\ b.key = func_tokenize(kwargs[1])
        /\ addr = Name(_path(<<>>), func_tokenize(kwargs[1]), <<>>, "")
        /\ remove_cached_data(fs, <<>>, kwargs).fs = [n \in DOMAIN fs \ {addr} |-> fs[n]]
        /\ \A p \in Procs :
             ( /\ pc[p] = "idle" /\ ret[p].outcome = "computed" /\ key[p] = b.key
               /\ DefaultChain /\ removes = 0 /\ ~overlap ) =>
               /\ is_valid(fs, c)
               /\ has_data(fs, <<>>, kwargs).value
               /\ load_cached_data(fs, <<>>, kwargs).status = "ok"
               /\ load_cached_data(fs, <<>>, kwargs).value = ret[p].value

C19_Step ==
  \A p \in Procs :
    /\ (TargetEnds(p) /\ ret'[p].outcome = "computed")
         => exists(fs', EntryName(key[p]))
    /\ (pc[p] = "hit" /\ pc'[p] = "idle" /\ DefaultChain /\ removes = 0)
         => ret'[p].outcome = "hit"

C19_Orig == []C19_Addresses /\ [][C19_Step]_vars

\* C20 (as claimed): a call that has taken the hit branch ends by returning
\* the stored Entry, whatever remove_cached_data does in between; no call
\* ends with the storage's not-found error.
C20_NotFound == \A p \in Procs : ret[p].outcome # "FileNotFoundError"

C20_Step ==
  \A p \in Procs :
    (pc[p] = "hit" /\ pc'[p] = "idle") =>
      /\ ret'[p].outcome = "hit"
      /\ exists(fs, EntryName(key[p]))
      /\ ret'[p].value = {Stored(fs, key[p])}

C20_Orig == []C20_NotFound /\ [][C20_Step]_vars

====
